---- MODULE Spec2Model ----
(***************************************************************************)
(* Model of app.py, the Streamlit recommendation-letter generator.         *)
(*                                                                         *)
(* Streamlit executes the whole script from top to bottom on every run     *)
(* (page load or press of the form's submit button).  A run is modelled    *)
(* as a walk of pc through the statements of the script; the filesystem    *)
(* (fs) is the only state that survives from one run to the next.          *)
(*                                                                         *)
(* Strings are sequences of one-character strings, so that replace(),      *)
(* upper(), os.path.join() and os.path.basename() are computed character   *)
(* by character.  File extensions and directory names are single tokens.   *)
(***************************************************************************)
EXTENDS Integers, Sequences, FiniteSets, TLC

VARIABLES
    pc,            \* position of the current script run
    nrun,          \* number of the current script run (1, 2, ...)
    submitted,     \* value of st.form_submit_button (line 126)
    full_name, gender, university, project_topic, grad_class, cwa, year,
    context,       \* the substitution dictionary (lines 138-147)
    template_file, \* line 149
    template_exists, \* outcome of os.path.exists(template_file), line 151
    doc,           \* the rendered DocxTemplate (line 154)
    temp_dir, docx_path, pdf_path,   \* locals of save_and_convert_to_pdf
    ret_pdf,       \* second component returned by save_and_convert_to_pdf
    media_list,    \* result of list_docx_media (line 76)
    extracted,     \* result of extract_docx_media (line 85)
    fs,            \* the filesystem below the temporary directory root
    ui,            \* elements shown on the page by the current run
    trace,         \* steps taken and external calls made by the current run
    escaped        \* an exception left the script uncaught

fields == <<full_name, gender, university, project_topic, grad_class, cwa, year>>
locals == <<context, template_file, template_exists, doc, temp_dir, docx_path, pdf_path,
            ret_pdf, media_list, extracted>>
vars == <<pc, nrun, submitted, fields, locals, fs, ui, trace, escaped>>

----------------------------------------------------------------------------
(* Bounds of the model *)

\* number of script runs explored
MaxRuns == 2
\* longest name drawn by the naming specification
MaxLen == 3

----------------------------------------------------------------------------
(* Strings *)

\* characters a text field may hold in the pipeline model
Chars == {"a", " ", "/"}
\* characters drawn by the naming specification
NameChars == {"a", "B", "ß", " ", "/", "_"}

Str1(S) == {<<>>} \cup {<<c>> : c \in S}

RECURSIVE StrUpTo(_, _)
StrUpTo(S, n) ==
    IF n = 0 THEN {<<>>}
    ELSE LET shorter == StrUpTo(S, n - 1)
         IN  shorter \cup {Append(s, c) : s \in shorter, c \in S}

EmptyStr == <<>>
None == <<>>

\* Python truthiness of a str (or of None): the empty string is falsy
Truthy(s) == s # <<>>

\* str.replace(old, new) for a one-character old: every occurrence
RECURSIVE Replace(_, _, _)
Replace(s, old, new) ==
    IF s = <<>> THEN <<>>
    ELSE <<IF Head(s) = old THEN new ELSE Head(s)>> \o Replace(Tail(s), old, new)

\* str.upper() of one character; "ß" has the two-character uppercase "SS"
UpperChar(c) ==
    CASE c = "a" -> <<"A">>
      [] c = "ß" -> <<"S", "S">>
      [] OTHER   -> <<c>>

\* str.upper()
RECURSIVE Upper(_)
Upper(s) == IF s = <<>> THEN <<>> ELSE UpperChar(Head(s)) \o Upper(Tail(s))

----------------------------------------------------------------------------
(* Paths: posixpath.join and posixpath.basename over "/"-separated tokens *)

Sep == "/"

\* os.path.join(a, b)
JoinPath(a, b) ==
    IF b # <<>> /\ Head(b) = Sep THEN b
    ELSE IF a = <<>> \/ a[Len(a)] = Sep THEN a \o b
    ELSE a \o <<Sep>> \o b

\* os.path.basename(p): what follows the last "/"
RECURSIVE Basename(_)
Basename(p) ==
    IF \E i \in 1..Len(p) : p[i] = Sep THEN Basename(Tail(p)) ELSE p

\* a is an initial segment of b (str.startswith)
IsPrefix(a, b) == Len(a) <= Len(b) /\ SubSeq(b, 1, Len(a)) = a

StartsWith(s, pre) == IsPrefix(pre, s)
EndsWith(s, suf) ==
    Len(suf) <= Len(s) /\ SubSeq(s, Len(s) - Len(suf) + 1, Len(s)) = suf

\* tempfile.gettempdir()
TmpRoot == <<Sep, "tmp">>

----------------------------------------------------------------------------
(* The filesystem: entries [path, kind, by], by = the run that wrote it *)

Paths(fsys) == {e.path : e \in fsys}

\* creating or overwriting the entry at path p
WriteEntry(fsys, p, kind, by) ==
    {e \in fsys : e.path # p} \cup {[path |-> p, kind |-> kind, by |-> by]}

\* tempfile.mkdtemp(): a directory under the temporary root whose name is
\* not in use (names are interchangeable; the least unused one is taken)
\* (faulty variant: one fixed directory for every run)
TempDirWrongReuse(fsys) == JoinPath(TmpRoot, <<"tmp" \o ToString(1)>>)
Mkdtemp(fsys) ==
    LET name(k) == JoinPath(TmpRoot, <<"tmp" \o ToString(k)>>)
        k0 == CHOOSE k \in 1..(Cardinality(fsys) + 1) :
                  /\ name(k) \notin Paths(fsys)
                  /\ \A j \in 1..(k - 1) : name(j) \in Paths(fsys)
    IN  name(k0)

----------------------------------------------------------------------------
(* Helpers of app.py *)

\* all(required), line 131
\* (faulty variant: the last field is not checked)
AllFilledIgnoringLast(required) ==
    \A i \in 1..(Len(required) - 1) : Truthy(required[i])
AllFilled(required) == \A i \in 1..Len(required) : Truthy(required[i])

\* line 130
Required == <<full_name, gender, university, project_topic, grad_class, cwa, year>>

\* line 149
\* (faulty variant: the gender is ignored)
TemplateAlwaysMale(g) == <<"Male", ".docx">>
TemplateFor(g) ==
    IF g = <<"Male">> THEN <<"Male", ".docx">> ELSE <<"Female", ".docx">>

\* lines 54-55: s.replace(" ", "_").replace("/", "_")
\* (faulty variant: slashes are kept)
SafeNameSpacesOnly(s) == Replace(s, " ", "_")
SafeName(s) == Replace(Replace(s, " ", "_"), "/", "_")

\* line 56
BaseName(student_name, university_name) ==
    SafeName(student_name) \o <<"_">> \o SafeName(university_name)

\* lines 58-59
DocxPath(dir, student_name, university_name) ==
    JoinPath(dir, BaseName(student_name, university_name) \o <<".docx">>)
PdfPath(dir, student_name, university_name) ==
    JoinPath(dir, BaseName(student_name, university_name) \o <<".pdf">>)

\* lines 138-147
\* (faulty variant: Name_Upper is not uppercased)
MakeContextNoUpper(name, univ, topic, class, avg, yr, date) ==
    [Name |-> name, Name_Upper |-> name, University_Applying_To |-> univ,
     Project_Topic |-> topic, Graduating_Class |-> class, CWA |-> avg,
     Year |-> yr, Date |-> date]
MakeContext(name, univ, topic, class, avg, yr, date) ==
    [Name |-> name, Name_Upper |-> Upper(name), University_Applying_To |-> univ,
     Project_Topic |-> topic, Graduating_Class |-> class, CWA |-> avg,
     Year |-> yr, Date |-> date]

NoContext == [k \in {} |-> <<>>]
NoDoc == [template |-> None, values |-> NoContext]

\* line 136: datetime.date.today().strftime("%B %d, %Y")
Dates == {<<"November 02, 2026">>}

----------------------------------------------------------------------------
(* Exceptions raised by the library calls the script makes *)

\* classes of the exceptions modelled; both derive from Exception
ExceptionClasses == {"OSError", "RuntimeError"}

\* what each external call may raise
Raises(call) ==
    CASE call = "get_pandoc_path" -> {"OSError"}
      [] call = "render"          -> {"RuntimeError"}
      [] call = "convert_file"    -> {"RuntimeError"}
      [] call = "download_button" -> {"RuntimeError"}
      [] OTHER                    -> {"OSError"}

\* "except Exception as e" of the processing block, line 181
\* (faulty variant: except OSError)
CatchesOSErrorOnly(e) == e = "OSError"
OuterCatches(e) == e \in ExceptionClasses

\* an exception e raised inside the try block of lines 135-182, with the
\* page as it was when e was raised: line 182 reports it, the run ends
RaisedInTry(e, page) ==
    IF OuterCatches(e)
    THEN /\ ui' = Append(page, <<"error", "unexpected_error", <<e>>>>)
         /\ pc' = "done"
         /\ escaped' = escaped
    ELSE /\ ui' = page
         /\ pc' = "crashed"
         /\ escaped' = TRUE

----------------------------------------------------------------------------
(* Members of the template's zip archive seen by the media helpers *)

EmfMember == <<"word", Sep, "media", Sep, "image1", ".emf">>
PngMember == <<"word", Sep, "media", Sep, "image2", ".png">>
XmlMember == <<"word", Sep, "document", ".xml">>

\* possible results of z.namelist()
NameLists ==
    {<<XmlMember, PngMember>>, <<XmlMember, EmfMember, PngMember>>}

\* mimetypes.guess_type(name)[0], line 25
GuessType(name) ==
    IF EndsWith(name, <<".png">>) THEN "image/png"
    ELSE IF EndsWith(name, <<".emf">>) THEN "image/emf"
    ELSE "None"

\* lines 23-26: the members below word/media/, with their types
ListMedia(namelist) ==
    LET keep == SelectSeq(namelist,
                    LAMBDA n : StartsWith(n, <<"word", Sep, "media", Sep>>))
    IN  [i \in 1..Len(keep) |->
            <<keep[i], IF GuessType(keep[i]) = "None"
                       THEN "application/octet-stream"
                       ELSE GuessType(keep[i])>>]

\* line 77
EmfFiles(media) ==
    LET isEmf(m) == EndsWith(m[1], <<".emf">>) \/ m[2] = "image/emf"
        sel == SelectSeq(media, isEmf)
    IN  [i \in 1..Len(sel) |-> sel[i][1]]

\* lines 35-40: the target path of every media member
ExtractTargets(namelist, out_dir) ==
    LET keep == SelectSeq(namelist,
                    LAMBDA n : StartsWith(n, <<"word", Sep, "media", Sep>>))
    IN  [i \in 1..Len(keep) |-> JoinPath(out_dir, Basename(keep[i]))]

RECURSIVE WriteAll(_, _, _)
WriteAll(fsys, paths, by) ==
    IF paths = <<>> THEN fsys
    ELSE WriteAll(WriteEntry(fsys, Head(paths), "file", by), Tail(paths), by)

----------------------------------------------------------------------------
(* The script run *)

\* the text fields hold any string; the selectbox one of its two options
TextValues == Str1(Chars)
OtherValues == {EmptyStr, <<"x">>}
Genders == {<<"Male">>, <<"Female">>}

Init ==
    /\ pc = "startup"
    /\ nrun = 1
    /\ submitted = FALSE
    /\ full_name = EmptyStr /\ gender = <<"Male">> /\ university = EmptyStr
    /\ project_topic = EmptyStr /\ grad_class = EmptyStr
    /\ cwa = EmptyStr /\ year = EmptyStr
    /\ context = NoContext /\ template_file = None /\ doc = NoDoc
    /\ template_exists = "unchecked"
    /\ temp_dir = None /\ docx_path = None /\ pdf_path = None /\ ret_pdf = None
    /\ media_list = <<>> /\ extracted = <<>>
    /\ fs = {}
    /\ ui = <<>>
    /\ trace = <<>>
    /\ escaped = FALSE

\* Streamlit runs the script again (page load, or the submit button);
\* nothing but the filesystem survives
Rerun ==
    /\ pc \in {"done", "crashed"}
    /\ nrun < MaxRuns
    /\ pc' = "startup"
    /\ nrun' = nrun + 1
    /\ submitted' = FALSE
    /\ full_name' = EmptyStr /\ gender' = <<"Male">> /\ university' = EmptyStr
    /\ project_topic' = EmptyStr /\ grad_class' = EmptyStr
    /\ cwa' = EmptyStr /\ year' = EmptyStr
    /\ context' = NoContext /\ template_file' = None /\ doc' = NoDoc
    /\ template_exists' = "unchecked"
    /\ temp_dir' = None /\ docx_path' = None /\ pdf_path' = None
    /\ ret_pdf' = None
    /\ media_list' = <<>> /\ extracted' = <<>>
    /\ ui' = <<>>
    /\ trace' = <<>>
    /\ escaped' = FALSE
    /\ UNCHANGED fs

\* lines 10-15: the module-level check that pandoc is available
PandocCheck ==
    /\ pc = "startup"
    /\ \/ /\ trace' = Append(trace, "get_pandoc_path")
          /\ pc' = "form"
          /\ UNCHANGED <<ui, escaped>>
       \/ /\ "OSError" \in Raises("get_pandoc_path")
          /\ ui' = Append(ui, <<"warning", "pandoc_not_found", <<>>>>)
          /\ trace' = trace \o <<"get_pandoc_path", "download_pandoc">>
          /\ \/ pc' = "form" /\ UNCHANGED escaped
             \/ \E e \in Raises("download_pandoc") :
                    pc' = "crashed" /\ escaped' = TRUE
    /\ UNCHANGED <<nrun, submitted, fields, locals, fs>>

\* lines 111-126: the form.  Widgets inside a form hold their defaults
\* until the submit button is pressed
Form ==
    /\ pc = "form"
    /\ \/ /\ submitted' = FALSE
          /\ pc' = "done"
          /\ UNCHANGED fields
       \/ /\ submitted' = TRUE
          /\ pc' = "validate"
          /\ full_name' \in TextValues
          /\ gender' \in Genders
          /\ university' \in TextValues
          /\ project_topic' \in OtherValues
          /\ grad_class' \in OtherValues
          /\ cwa' \in OtherValues
          /\ year' \in OtherValues
    /\ UNCHANGED <<nrun, locals, fs, ui, trace, escaped>>

\* lines 129-133
\* (faulty variant: the else of line 133 is missing)
ValidateFallsThrough ==
    /\ pc = "validate"
    /\ trace' = Append(trace, "validate")
    /\ ui' = IF ~AllFilled(Required)
             THEN Append(ui, <<"warning", "fill_in_all_fields", <<>>>>)
             ELSE ui
    /\ pc' = "context"
    /\ UNCHANGED <<nrun, submitted, fields, locals, fs, escaped>>
Validate ==
    /\ pc = "validate"
    /\ trace' = Append(trace, "validate")
    /\ IF ~AllFilled(Required)
       THEN /\ ui' = Append(ui, <<"warning", "fill_in_all_fields", <<>>>>)
            /\ pc' = "done"
       ELSE /\ ui' = ui
            /\ pc' = "context"
    /\ UNCHANGED <<nrun, submitted, fields, locals, fs, escaped>>

\* lines 136-149
BuildContext ==
    /\ pc = "context"
    /\ \E current_date \in Dates :
           context' = MakeContext(full_name, university, project_topic,
                                  grad_class, cwa, year, current_date)
    /\ template_file' = TemplateFor(gender)
    /\ pc' = "exists"
    /\ UNCHANGED <<nrun, submitted, fields, template_exists, doc, temp_dir,
                   docx_path, pdf_path, ret_pdf, media_list, extracted, fs, ui,
                   trace, escaped>>

\* lines 151-153: os.path.exists(template_file)
\* (faulty variant: the else of line 153 is missing)
CheckTemplateNoElse ==
    /\ pc = "exists"
    /\ trace' = Append(trace, "exists")
    /\ template_exists' \in {"present", "missing"}
    /\ ui' = IF template_exists' = "missing"
             THEN Append(ui, <<"error", "template_not_found", template_file>>)
             ELSE ui
    /\ pc' = "render"
    /\ UNCHANGED <<nrun, submitted, fields, context, template_file, doc,
                   temp_dir, docx_path, pdf_path, ret_pdf, media_list,
                   extracted, fs, escaped>>
CheckTemplate ==
    /\ pc = "exists"
    /\ trace' = Append(trace, "exists")
    /\ template_exists' \in {"present", "missing"}
    /\ IF template_exists' = "missing"
       THEN /\ ui' = Append(ui, <<"error", "template_not_found", template_file>>)
            /\ pc' = "done"
       ELSE /\ ui' = ui
            /\ pc' = "render"
    /\ UNCHANGED <<nrun, submitted, fields, context, template_file, doc,
                   temp_dir, docx_path, pdf_path, ret_pdf, media_list,
                   extracted, fs, escaped>>

\* line 154 and generate_letter, lines 45-48
GenerateLetter ==
    /\ pc = "render"
    /\ trace' = Append(trace, "render")
    /\ \/ /\ doc' = [template |-> template_file, values |-> context]
          /\ pc' = "mkdtemp"
          /\ UNCHANGED <<ui, escaped>>
       \/ /\ \E e \in Raises("render") : RaisedInTry(e, ui)
          /\ UNCHANGED doc
    /\ UNCHANGED <<nrun, submitted, fields, context, template_file,
                   template_exists, temp_dir,
                   docx_path, pdf_path, ret_pdf, media_list, extracted, fs>>

\* lines 53-59
MakeTempDir ==
    /\ pc = "mkdtemp"
    /\ trace' = Append(trace, "mkdtemp")
    /\ \/ /\ temp_dir' = Mkdtemp(fs)
          /\ fs' = WriteEntry(fs, temp_dir', "dir", nrun)
          /\ docx_path' = DocxPath(temp_dir', full_name, university)
          /\ pdf_path' = PdfPath(temp_dir', full_name, university)
          /\ pc' = "save"
          /\ UNCHANGED <<ui, escaped>>
       \/ /\ \E e \in Raises("mkdtemp") : RaisedInTry(e, ui)
          /\ UNCHANGED <<temp_dir, docx_path, pdf_path, fs>>
    /\ UNCHANGED <<nrun, submitted, fields, context, template_file,
                   template_exists, doc,
                   ret_pdf, media_list, extracted>>

\* line 62
SaveDocx ==
    /\ pc = "save"
    /\ trace' = Append(trace, "save")
    /\ \/ /\ fs' = WriteEntry(fs, docx_path, "file", nrun)
          /\ pc' = "ensure"
          /\ UNCHANGED <<ui, escaped>>
       \/ /\ \E e \in Raises("save") : RaisedInTry(e, ui)
          /\ UNCHANGED fs
    /\ UNCHANGED <<nrun, submitted, fields, locals>>

\* lines 64-68
EnsurePandoc ==
    /\ pc = "ensure"
    /\ \/ /\ trace' = Append(trace, "get_pandoc_path")
          /\ pc' = "convert"
          /\ UNCHANGED <<ui, escaped>>
       \/ /\ "OSError" \in Raises("get_pandoc_path")
          /\ trace' = trace \o <<"get_pandoc_path", "download_pandoc">>
          /\ \/ pc' = "convert" /\ UNCHANGED <<ui, escaped>>
             \/ \E e \in Raises("download_pandoc") : RaisedInTry(e, ui)
    /\ UNCHANGED <<nrun, submitted, fields, locals, fs>>


\* lines 70-75: pypandoc.convert_file and the start of its except block
ConvertFile ==
    /\ pc = "convert"
    /\ trace' = Append(trace, "convert_file")
    /\ \/ /\ fs' = WriteEntry(fs, pdf_path, "file", nrun)
          /\ ret_pdf' = pdf_path
          /\ pc' = "success"
          /\ UNCHANGED ui
       \/ /\ \E e \in Raises("convert_file") :
                 ui' = Append(ui, <<"warning", "pdf_conversion_failed", <<e>>>>)
          /\ pc' = "inspect"
          /\ UNCHANGED <<fs, ret_pdf>>
    /\ UNCHANGED <<nrun, submitted, fields, context, template_file,
                   template_exists, doc,
                   temp_dir, docx_path, pdf_path, media_list, extracted, escaped>>

\* lines 76-81 and 94-98, with list_docx_media, lines 19-29
InspectMedia ==
    /\ pc = "inspect"
    /\ trace' = Append(trace, "list_docx_media")
    /\ \E page \in {ui, Append(ui, <<"warning", "could_not_inspect", <<"OSError">>>>)} :
       \E namelist \in NameLists :
           /\ media_list' = IF page = ui THEN ListMedia(namelist) ELSE <<>>
           /\ IF EmfFiles(media_list') # <<>>
              THEN /\ ui' = page \o <<<<"error", "template_contains_emf", <<>>>>,
                                      <<"info", "replace_emf_images", <<>>>>>>
                   /\ pc' = "extract"
                   /\ UNCHANGED ret_pdf
              ELSE /\ ui' = page \o <<<<"info", "no_emf_found", <<>>>>,
                                      <<"info", "replace_svg_wmf", <<>>>>>>
                   /\ ret_pdf' = None
                   /\ pc' = "success"
    /\ UNCHANGED <<nrun, submitted, fields, context, template_file,
                   template_exists, doc,
                   temp_dir, docx_path, pdf_path, extracted, fs, escaped>>

\* lines 82-86, with extract_docx_media, lines 32-41
ExtractMedia ==
    /\ pc = "extract"
    /\ LET media_out == JoinPath(temp_dir, <<"extracted_media">>)
           names == [i \in 1..Len(media_list) |-> media_list[i][1]]
           targets == ExtractTargets(names, media_out)
           made == WriteEntry(fs, media_out, "dir", nrun)
       IN  \/ /\ trace' = Append(trace, "makedirs")
              /\ \E e \in Raises("makedirs") : RaisedInTry(e, ui)
              /\ UNCHANGED <<fs, extracted>>
           \/ /\ trace' = trace \o <<"makedirs", "extract_docx_media">>
              /\ fs' = made
              /\ \E e \in Raises("ZipFile") : RaisedInTry(e, ui)
              /\ UNCHANGED extracted
           \/ /\ trace' = trace \o <<"makedirs", "extract_docx_media">>
              /\ fs' = WriteAll(made, targets, nrun)
              /\ extracted' = targets
              /\ ui' = Append(ui, <<"markdown", "extracted_media_files", <<>>>>)
              /\ pc' = "buttons"
              /\ UNCHANGED escaped
    /\ UNCHANGED <<nrun, submitted, fields, context, template_file,
                   template_exists, doc,
                   temp_dir, docx_path, pdf_path, ret_pdf, media_list>>

\* lines 87-93 and 98: one button per extracted file, or a plain line
\* when reading the file or showing the button fails
MediaButtons ==
    /\ pc = "buttons"
    /\ trace' = Append(trace, "media_buttons")
    /\ \E failing \in SUBSET (1..Len(extracted)) :
           ui' = ui \o [i \in 1..Len(extracted) |->
                           IF i \in failing
                           THEN <<"write", "unable_to_show", Basename(extracted[i])>>
                           ELSE <<"download_button", "media", Basename(extracted[i])>>]
    /\ ret_pdf' = None
    /\ pc' = "success"
    /\ UNCHANGED <<nrun, submitted, fields, context, template_file,
                   template_exists, doc,
                   temp_dir, docx_path, pdf_path, media_list, extracted, fs,
                   escaped>>

\* lines 157-160
\* (faulty variant: the .docx button is skipped when there is a PDF)
ShowSuccessThenPdf ==
    /\ pc = "success"
    /\ trace' = Append(trace, "success")
    /\ ui' = ui \o <<<<"success", "letter_generated", <<>>>>,
                     <<"markdown", "download_your_files", <<>>>>>>
    /\ pc' = IF Truthy(ret_pdf) THEN "offer_pdf" ELSE "offer_docx"
    /\ UNCHANGED <<nrun, submitted, fields, locals, fs, escaped>>
ShowSuccess ==
    /\ pc = "success"
    /\ trace' = Append(trace, "success")
    /\ ui' = ui \o <<<<"success", "letter_generated", <<>>>>,
                     <<"markdown", "download_your_files", <<>>>>>>
    /\ pc' = "offer_docx"
    /\ UNCHANGED <<nrun, submitted, fields, locals, fs, escaped>>

\* lines 162-171: open(docx_path), the download button, "if pdf_path"
OfferDocx ==
    /\ pc = "offer_docx"
    /\ trace' = Append(trace, "offer_docx")
    /\ \/ /\ docx_path \in Paths(fs)
          /\ ui' = Append(ui, <<"download_button", "docx", Basename(docx_path)>>)
          /\ pc' = IF Truthy(ret_pdf) THEN "offer_pdf" ELSE "done"
          /\ UNCHANGED escaped
       \/ \E e \in Raises("open") \cup Raises("download_button") :
              RaisedInTry(e, ui)
    /\ UNCHANGED <<nrun, submitted, fields, locals, fs>>

\* lines 172-179: open(pdf_path) and the download button
OfferPdf ==
    /\ pc = "offer_pdf"
    /\ trace' = Append(trace, "offer_pdf")
    /\ \/ /\ ret_pdf \in Paths(fs)
          /\ ui' = Append(ui, <<"download_button", "pdf", Basename(ret_pdf)>>)
          /\ pc' = "done"
          /\ UNCHANGED escaped
       \/ \E e \in Raises("open") \cup Raises("download_button") :
              RaisedInTry(e, ui)
    /\ UNCHANGED <<nrun, submitted, fields, locals, fs>>

Next ==
    \/ Rerun
    \/ PandocCheck
    \/ Form
    \/ Validate
    \/ BuildContext
    \/ CheckTemplate
    \/ GenerateLetter
    \/ MakeTempDir
    \/ SaveDocx
    \/ EnsurePandoc
    \/ ConvertFile
    \/ InspectMedia
    \/ ExtractMedia
    \/ MediaButtons
    \/ ShowSuccess
    \/ OfferDocx
    \/ OfferPdf

Spec == Init /\ [][Next]_vars

----------------------------------------------------------------------------
(* The naming functions on their own: the substitution dictionary, the     *)
(* paths of save_and_convert_to_pdf and the file names of the download     *)
(* buttons, applied to the names of a valid submission drawn from longer   *)
(* strings than the pipeline explores                                      *)

NamingInit ==
    /\ pc = "naming"
    /\ nrun = 1
    /\ submitted = TRUE
    /\ full_name \in StrUpTo(NameChars, MaxLen) \ {EmptyStr}
    /\ gender = <<"Male">>
    /\ university \in StrUpTo(Chars, MaxLen) \ {EmptyStr}
    /\ project_topic = <<"x">> /\ grad_class = <<"x">>
    /\ cwa = <<"x">> /\ year = <<"x">>
    /\ context = NoContext /\ template_file = None /\ doc = NoDoc
    /\ template_exists = "unchecked"
    /\ temp_dir = None /\ docx_path = None /\ pdf_path = None /\ ret_pdf = None
    /\ media_list = <<>> /\ extracted = <<>>
    /\ fs = {}
    /\ ui = <<>>
    /\ trace = <<>>
    /\ escaped = FALSE

\* lines 136-147
NamingContext ==
    /\ pc = "naming"
    /\ \E current_date \in Dates :
           context' = MakeContext(full_name, university, project_topic,
                                  grad_class, cwa, year, current_date)
    /\ pc' = "naming_paths"
    /\ UNCHANGED <<nrun, submitted, fields, template_file, template_exists, doc,
                   temp_dir, docx_path, pdf_path, ret_pdf, media_list,
                   extracted, fs, ui, trace, escaped>>

\* lines 53-59
NamingPaths ==
    /\ pc = "naming_paths"
    /\ temp_dir' = Mkdtemp(fs)
    /\ docx_path' = DocxPath(temp_dir', full_name, university)
    /\ pdf_path' = PdfPath(temp_dir', full_name, university)
    /\ pc' = "naming_offer"
    /\ UNCHANGED <<nrun, submitted, fields, context, template_file,
                   template_exists, doc, ret_pdf, media_list, extracted, fs,
                   ui, trace, escaped>>

\* lines 167 and 177: file_name=os.path.basename(...)
NamingOffer ==
    /\ pc = "naming_offer"
    /\ ui' = <<<<"download_button", "docx", Basename(docx_path)>>,
               <<"download_button", "pdf", Basename(pdf_path)>>>>
    /\ pc' = "naming_done"
    /\ UNCHANGED <<nrun, submitted, fields, locals, fs, trace, escaped>>

NamingNext ==
    \/ NamingContext
    \/ NamingPaths
    \/ NamingOffer

NamingSpec == NamingInit /\ [][NamingNext]_vars

----------------------------------------------------------------------------
(* Vocabulary of the properties *)

Range(s) == {s[i] : i \in 1..Len(s)}
Last(s) == s[Len(s)]
Count(s, x) == Cardinality({i \in 1..Len(s) : s[i] = x})

\* the current run has shown an element of this kind and tag
Shown(kind, tag) == \E i \in 1..Len(ui) : ui[i][1] = kind /\ ui[i][2] = tag
Offered(tag) == Shown("download_button", tag)
Position(kind, tag) == CHOOSE i \in 1..Len(ui) : ui[i][1] = kind /\ ui[i][2] = tag

\* the call was made by the current run and returned (a call that raised
\* is the last entry of the trace)
Returned(call) == \E i \in 1..(Len(trace) - 1) : trace[i] = call

\* what the run numbered n has left in the filesystem
FilesBy(n) == {e \in fs : e.by = n}
\* the temporary directories (directly below the temporary root) of run n
TempDirsBy(n) ==
    {e \in fs : e.by = n /\ e.kind = "dir" /\ Len(e.path) = Len(TmpRoot) + 2}

SomeFieldEmpty ==
    \/ full_name = EmptyStr \/ gender = EmptyStr \/ university = EmptyStr
    \/ project_topic = EmptyStr \/ grad_class = EmptyStr
    \/ cwa = EmptyStr \/ year = EmptyStr
ValidSubmission == submitted /\ ~SomeFieldEmpty

FillWarning == <<"warning", "fill_in_all_fields", <<>>>>

\* nothing of a document has been produced by the current run
NothingProduced ==
    /\ doc = NoDoc
    /\ "render" \notin Range(trace)
    /\ temp_dir = None /\ docx_path = None
    /\ FilesBy(nrun) = {}
    /\ "convert_file" \notin Range(trace)
    /\ \A i \in 1..Len(ui) : ui[i][1] \notin {"download_button", "success"}

----------------------------------------------------------------------------
(* C1 *)

\* C1: a submission with at least one of the seven fields empty produces no
\* document (nothing rendered, nothing saved, no download offered, no
\* success message) and ends with the "fill in all fields" warning.
C1_EmptyFieldRejected ==
    (submitted /\ SomeFieldEmpty) =>
        /\ pc \in {"validate", "done"}
        /\ NothingProduced
        /\ pc = "done" => ui # <<>> /\ Last(ui) = FillWarning

C1_Witness ==
    /\ pc = "done" /\ submitted
    /\ year = EmptyStr
    /\ full_name # EmptyStr /\ university # EmptyStr /\ project_topic # EmptyStr
    /\ grad_class # EmptyStr /\ cwa # EmptyStr
    /\ Last(ui) = FillWarning

----------------------------------------------------------------------------
(* C2 *)

\* the .docx of the current run is saved and no .pdf stands beside it: the
\* conversion step (lines 64-98) has not produced a PDF
ConversionFailed ==
    /\ docx_path # None /\ docx_path \in Paths(fs)
    /\ pdf_path \notin Paths(fs)

\* C2: when the conversion step of a valid submission fails, in any way it
\* can fail, the run still goes on to offer the saved .docx and offers no
\* PDF.
C2_DocxOfferedWhenConversionFails ==
    (pc = "done" /\ ValidSubmission /\ template_exists = "present"
        /\ ConversionFailed) =>
        /\ "offer_docx" \in Range(trace)
        /\ ~Offered("pdf")

----------------------------------------------------------------------------
(* C3 *)

\* C3: when the chosen template file does not exist, the run ends with an
\* error message naming that file and nothing is produced: no rendering, no
\* temporary directory or file, no conversion, no download, no success.
C3_MissingTemplateReported ==
    template_exists = "missing" =>
        /\ pc = "done"
        /\ ValidSubmission
        /\ Last(ui) = <<"error", "template_not_found",
                        IF gender = <<"Male">> THEN <<"Male", ".docx">>
                                               ELSE <<"Female", ".docx">>>>
        /\ NothingProduced

C3_Witness ==
    /\ template_exists = "missing"
    /\ gender = <<"Female">>
    /\ Last(ui) = <<"error", "template_not_found", <<"Female", ".docx">>>>

----------------------------------------------------------------------------
(* C4 *)

\* every space and every "/" becomes "_", every other character stays
Sanitized(s) ==
    [i \in 1..Len(s) |-> IF s[i] \in {" ", "/"} THEN "_" ELSE s[i]]
ExpectedBase == Sanitized(full_name) \o <<"_">> \o Sanitized(university)

\* C4: the rendered file lies directly in the temporary directory and is
\* named sanitize(student) + "_" + sanitize(university) + ".docx"; the PDF
\* has the same base name with ".pdf"; a download button carries exactly
\* that file name.
C4_FileName ==
    docx_path # None =>
        /\ docx_path = temp_dir \o <<Sep>> \o ExpectedBase \o <<".docx">>
        /\ pdf_path = temp_dir \o <<Sep>> \o ExpectedBase \o <<".pdf">>
        /\ \A i \in 1..Len(ui) :
               /\ (ui[i][1] = "download_button" /\ ui[i][2] = "docx")
                      => ui[i][3] = ExpectedBase \o <<".docx">>
               /\ (ui[i][1] = "download_button" /\ ui[i][2] = "pdf")
                      => ui[i][3] = ExpectedBase \o <<".pdf">>

C4_Witness ==
    /\ full_name = <<"a", " ", "/">>
    /\ university = <<"/", "a">>
    /\ Offered("docx") /\ Offered("pdf")
    /\ ui[1][3] = <<"a", "_", "_", "_", "_", "a", ".docx">>

----------------------------------------------------------------------------
(* C5 *)

\* C5: gender "Male" selects Male.docx, the other accepted value selects
\* Female.docx; the template opened for rendering is the selected one, and
\* the selection is a function of the gender alone.
C5_TemplateByGender ==
    template_file # None =>
        /\ gender = <<"Male">> => template_file = <<"Male", ".docx">>
        /\ gender # <<"Male">> => template_file = <<"Female", ".docx">>
        /\ doc # NoDoc => doc.template = template_file

C5_Witness ==
    /\ pc = "done"
    /\ gender = <<"Female">>
    /\ doc # NoDoc /\ doc.template = <<"Female", ".docx">>
    /\ Offered("docx")

----------------------------------------------------------------------------
(* C6 *)

StartupCalls ==
    {<<"get_pandoc_path">>, <<"get_pandoc_path", "download_pandoc">>}

\* C6 as stated: a run that ends in the validation warning creates no
\* temporary directory or file, opens no template and makes no external
\* call at all, the lookup and the download of pandoc included.
C6_NoExternalCallAtAll ==
    (pc = "done" /\ Shown("warning", "fill_in_all_fields")) =>
        /\ NothingProduced
        /\ template_exists = "unchecked"
        /\ Range(trace) \subseteq {"validate"}

\* C6 (amended): a run that shows the validation warning ends there, having
\* created no temporary directory or file, opened no template and built no
\* context; the only external calls it has made are those of the start-up
\* check of lines 10-15 (the pandoc lookup, and the download when the lookup
\* fails), which precede the validation.
C6_NoSideEffectsAfterStartup ==
    Shown("warning", "fill_in_all_fields") =>
        /\ pc = "done"
        /\ submitted /\ SomeFieldEmpty
        /\ NothingProduced
        /\ template_exists = "unchecked"
        /\ context = NoContext /\ template_file = None
        /\ \E calls \in StartupCalls : trace = calls \o <<"validate">>

C6_Witness ==
    /\ pc = "done" /\ submitted
    /\ Last(ui) = FillWarning
    /\ trace = <<"get_pandoc_path", "download_pandoc", "validate">>

----------------------------------------------------------------------------
(* C7 *)

\* the run of a valid submission with its template present went through to
\* the last download it had to offer
WentThrough ==
    /\ Offered("docx")
    /\ Truthy(ret_pdf) => Offered("pdf")

\* C7: no exception leaves the processing block (the only uncaught one is
\* that of the start-up download, before the form); rendering, saving and
\* converting are attempted at most once per run; and every submission that
\* fails ends with a message to the user: the warning for an empty field,
\* the error naming a missing template, the conversion warning, or the
\* "unexpected error" message for everything else.
C7_FailuresReported ==
    /\ escaped => pc = "crashed" /\ ~submitted /\ "validate" \notin Range(trace)
    /\ Count(trace, "render") <= 1
    /\ Count(trace, "save") <= 1
    /\ Count(trace, "convert_file") <= 1
    /\ (pc = "done" /\ submitted /\ SomeFieldEmpty) => Last(ui) = FillWarning
    /\ (pc = "done" /\ template_exists = "missing") =>
           Last(ui)[1] = "error" /\ Last(ui)[2] = "template_not_found"
    /\ (pc = "done" /\ template_exists = "present" /\ ~WentThrough) =>
           Last(ui)[1] = "error" /\ Last(ui)[2] = "unexpected_error"
    /\ ("convert_file" \in Range(trace) /\ pc # "inspect"
            /\ pdf_path \notin Paths(fs)) =>
           Shown("warning", "pdf_conversion_failed")

C7_Witness ==
    /\ pc = "done"
    /\ trace # <<>> /\ Last(trace) = "render"
    /\ Last(ui) = <<"error", "unexpected_error", <<"RuntimeError">>>>

----------------------------------------------------------------------------
(* C8 *)

\* C8: the substitution dictionary has exactly the eight keys; Name is the
\* full name as entered, Name_Upper its uppercase, the other values are the
\* fields as entered; the dictionary rendered into the document is this one.
C8_Context ==
    DOMAIN context # {} =>
        /\ DOMAIN context = {"Name", "Name_Upper", "University_Applying_To",
                             "Project_Topic", "Graduating_Class", "CWA",
                             "Year", "Date"}
        /\ context.Name = full_name
        /\ context.Name_Upper = Upper(full_name)
        /\ context.University_Applying_To = university
        /\ context.Project_Topic = project_topic
        /\ context.Graduating_Class = grad_class
        /\ context.CWA = cwa
        /\ context.Year = year
        /\ doc # NoDoc => doc.values = context

C8_Witness ==
    /\ full_name = <<"a", "ß", "B">>
    /\ DOMAIN context # {}
    /\ context.Name = <<"a", "ß", "B">>
    /\ context.Name_Upper = <<"A", "S", "S", "B">>

----------------------------------------------------------------------------
(* C9 *)

\* C9 as stated, at the end of a run: every valid submission whose template
\* exists has created exactly one temporary directory holding its .docx.
C9_ExactlyOneDirPerValidSubmission ==
    (pc = "done" /\ ValidSubmission /\ template_exists = "present") =>
        /\ Cardinality(TempDirsBy(nrun)) = 1
        /\ \E e \in FilesBy(nrun) : e.kind = "file" /\ e.path = docx_path

\* what the runs have left in the filesystem
C9_Layout ==
    \* only a valid submission whose template exists writes anything
    /\ FilesBy(nrun) # {} => ValidSubmission /\ template_exists = "present"
    \* at most one temporary directory per run; exactly one, the fresh one,
    \* once rendering and the creation of the directory have succeeded
    /\ \A n \in 1..nrun : Cardinality(TempDirsBy(n)) <= 1
    /\ (doc # NoDoc /\ Returned("mkdtemp")) =>
           TempDirsBy(nrun) = {[path |-> temp_dir, kind |-> "dir", by |-> nrun]}
    \* everything a run wrote lies inside the temporary directory of that run
    /\ \A e \in fs : \E d \in TempDirsBy(e.by) : IsPrefix(d.path, e.path)
    \* the directory holds the .docx once the save has succeeded, and the
    \* .pdf once the conversion has
    /\ Returned("save") =>
           [path |-> docx_path, kind |-> "file", by |-> nrun] \in fs
    /\ Truthy(ret_pdf) =>
           /\ [path |-> pdf_path, kind |-> "file", by |-> nrun] \in fs
           /\ IsPrefix(temp_dir, pdf_path)

\* every step keeps each existing entry as it is (not removed, not written
\* again by a later run) and adds entries of the current run only
C9_Step ==
    /\ \A e \in fs : e \in fs'
    /\ \A e \in fs' \ fs : e.by = nrun'

\* C9 (amended): over any sequence of runs, a valid submission whose
\* template exists creates at most one freshly generated temporary
\* directory, and exactly one once rendering and the creation of the
\* directory have succeeded; the directory holds the .docx once the save has
\* succeeded and the .pdf once the conversion has; no run writes into,
\* overwrites or deletes what an earlier run created, and nothing is ever
\* removed.
C9_FreshDirPerSubmission == [](C9_Layout) /\ [][C9_Step]_vars

\* two runs with the same names: two directories, one file name
C9_Witness ==
    \E e1 \in fs : \E e2 \in fs :
        /\ e1.by # e2.by
        /\ e1.kind = "file" /\ e2.kind = "file"
        /\ Basename(e1.path) = Basename(e2.path)
        /\ EndsWith(e1.path, <<".docx">>)

----------------------------------------------------------------------------
(* C10 *)

StepRank(step) ==
    CASE step = "validate"     -> 1
      [] step = "exists"       -> 2
      [] step = "render"       -> 3
      [] step = "save"         -> 4
      [] step = "convert_file" -> 5
      [] step = "success"      -> 6
      [] step = "offer_docx"   -> 7
      [] step = "offer_pdf"    -> 8
      [] OTHER                 -> 0

\* C10: within a run the steps validate, check template, render, save,
\* convert, success, offer .docx, offer PDF occur in this order, each at
\* most once; the converter is invoked only after the .docx is saved; a PDF
\* download is offered only when the conversion of this run returned
\* without error, and then after the success message and the .docx download.
C10_Order ==
    /\ \A i \in 1..Len(trace) : \A j \in 1..Len(trace) :
           (i < j /\ StepRank(trace[i]) > 0 /\ StepRank(trace[j]) > 0)
               => StepRank(trace[i]) < StepRank(trace[j])
    /\ "convert_file" \in Range(trace) =>
           /\ Returned("save")
           /\ [path |-> docx_path, kind |-> "file", by |-> nrun] \in fs
    /\ Offered("pdf") =>
           /\ "convert_file" \in Range(trace)
           /\ ~Shown("warning", "pdf_conversion_failed")
           /\ [path |-> pdf_path, kind |-> "file", by |-> nrun] \in fs
           /\ Offered("docx") /\ Shown("success", "letter_generated")
           /\ Position("success", "letter_generated")
                  < Position("download_button", "docx")
           /\ Position("download_button", "docx")
                  < Position("download_button", "pdf")

C10_Witness ==
    /\ pc = "done"
    /\ Offered("pdf")
    /\ trace = <<"get_pandoc_path", "validate", "exists", "render", "mkdtemp",
                 "save", "get_pandoc_path", "convert_file", "success",
                 "offer_docx", "offer_pdf">>

====
